---- MODULE Spec2Model ----
(***************************************************************************)
(* Model of the path tracer (maboesanman/pathtracer).                      *)
(*                                                                         *)
(* f64 values are fixed-point integers in units of 1/Scale, extended with  *)
(* the three IEEE-754 special values NaN, +infinity and -infinity.  Every   *)
(* arithmetic operation rounds its exact result to the nearest grid value. *)
(* Zeros are +0.0, except the divisor of HalfPlane::hit, whose sign is     *)
(* computed (DotNegZero).                                                  *)
(***************************************************************************)
EXTENDS Integers, Sequences, FiniteSets, TLC

VARIABLES
    \* ---- the render (main) ----
    mainpc,      \* "par": the parallel map runs; "assemble"; "saved"
    rowpc,       \* per row: "idle", "run" or "done"
    seed,        \* per row: the seed from_entropy gave its generator (0: none yet)
    gen_rng,     \* per row: CameraRayGen.rng
    rowpix,      \* per row: the closure's Vec pixels
    finished,    \* the rows in the order their tasks returned
    pixels,      \* the collected Vec of rows
    image,       \* RgbImage: image[y][x]
    writes,      \* put_pixel calls per pixel
    ay, ax,      \* position of the assembly loops
    run,         \* 1: first render, 2: the render repeated
    prev_seed,   \* seeds and image of the first render
    prev_image,
    \* ---- one call of a function on given arguments ----
    p_op,        \* the function applied ("none" before the call)
    p_ray, p_world, p_depth, p_rng,    \* the arguments
    p_item,      \* index in p_world of the object hit() was called on
    p_hit,       \* result of hit / of the scan
    p_rayout,    \* result of a Ray constructor
    p_trace      \* result of trace_path

renderVars == <<mainpc, rowpc, seed, gen_rng, rowpix, finished, pixels, image,
                writes, ay, ax, run, prev_seed, prev_image>>
pureVars == <<p_op, p_ray, p_world, p_depth, p_rng, p_item, p_hit, p_rayout, p_trace>>
vars == <<renderVars, pureVars>>

(***************************************************************************)
(* f64                                                                     *)
(***************************************************************************)
Scale == 20
PInf == 90000001
NInf == -PInf
NaN == 99999999

IsNaN(a) == a = NaN
IsInf(a) == a = PInf \/ a = NInf
IsFin(a) == ~IsNaN(a) /\ ~IsInf(a)

Abs(n) == IF n < 0 THEN -n ELSE n
Sgn(n) == IF n > 0 THEN 1 ELSE IF n < 0 THEN -1 ELSE 0

\* n / d rounded to the nearest integer (d # 0)
RoundDiv(n, d) ==
    LET s == Sgn(n) * Sgn(d)
    IN  s * ((2 * Abs(n) + Abs(d)) \div (2 * Abs(d)))

RECURSIVE ISqrtIn(_, _, _)
ISqrtIn(n, lo, hi) ==
    IF lo >= hi THEN lo
    ELSE LET mid == (lo + hi + 1) \div 2
         IN  IF mid * mid <= n THEN ISqrtIn(n, mid, hi) ELSE ISqrtIn(n, lo, mid - 1)

\* floor(sqrt(n)) for n >= 0
ISqrt(n) == ISqrtIn(n, 0, n)

\* sqrt(n / d) rounded to the nearest integer (n >= 0, d > 0)
RoundSqrt(n, d) == (ISqrt((4 * n) \div d) + 1) \div 2

FNeg(a) == IF IsNaN(a) THEN NaN ELSE -a

FAdd(a, b) ==
    IF IsNaN(a) \/ IsNaN(b) THEN NaN
    ELSE IF IsInf(a) THEN (IF b = -a THEN NaN ELSE a)
    ELSE IF IsInf(b) THEN b
    ELSE a + b

FSub(a, b) == FAdd(a, FNeg(b))

FMul(a, b) ==
    IF IsNaN(a) \/ IsNaN(b) THEN NaN
    ELSE IF IsInf(a) \/ IsInf(b)
         THEN (IF a = 0 \/ b = 0 THEN NaN
               ELSE IF Sgn(a) * Sgn(b) > 0 THEN PInf ELSE NInf)
    ELSE RoundDiv(a * b, Scale)

\* a / b where a zero divisor is +0.0
FDiv(a, b) ==
    IF IsNaN(a) \/ IsNaN(b) THEN NaN
    ELSE IF IsInf(a) THEN (IF IsInf(b) THEN NaN ELSE IF b < 0 THEN -a ELSE a)
    ELSE IF IsInf(b) THEN 0
    ELSE IF b = 0 THEN (IF a = 0 THEN NaN ELSE IF a > 0 THEN PInf ELSE NInf)
    ELSE RoundDiv(a * Scale, b)

\* a / b where a zero divisor is -0.0 when negzero
FDivZ(a, b, negzero) == IF b = 0 /\ negzero THEN FNeg(FDiv(a, b)) ELSE FDiv(a, b)

FSqrt(a) ==
    IF IsNaN(a) \/ a < 0 THEN NaN
    ELSE IF a = PInf THEN PInf
    ELSE RoundSqrt(a * Scale, 1)

\* a < b: false when either side is NaN
FLt(a, b) == ~IsNaN(a) /\ ~IsNaN(b) /\ a < b
FLe(a, b) == ~IsNaN(a) /\ ~IsNaN(b) /\ a <= b

(***************************************************************************)
(* cgmath::Vector3<f64>: <<x, y, z>>                                       *)
(***************************************************************************)
VFin(v) == IsFin(v[1]) /\ IsFin(v[2]) /\ IsFin(v[3])
VAdd(a, b) == <<FAdd(a[1], b[1]), FAdd(a[2], b[2]), FAdd(a[3], b[3])>>
VSub(a, b) == <<FSub(a[1], b[1]), FSub(a[2], b[2]), FSub(a[3], b[3])>>
VScale(v, k) == <<FMul(v[1], k), FMul(v[2], k), FMul(v[3], k)>>
VNeg(v) == <<FNeg(v[1]), FNeg(v[2]), FNeg(v[3])>>

\* sum of the squares of the components, in units of 1/Scale^2 (finite v)
RawMag2(v) == v[1] * v[1] + v[2] * v[2] + v[3] * v[3]

Dot(a, b) ==
    IF VFin(a) /\ VFin(b)
    THEN RoundDiv(a[1] * b[1] + a[2] * b[2] + a[3] * b[3], Scale)
    ELSE FAdd(FAdd(FMul(a[1], b[1]), FMul(a[2], b[2])), FMul(a[3], b[3]))

\* the f64 sum x*x' + y*y' + z*z' is -0.0: every product is a negative zero
DotNegZero(a, b) ==
    /\ VFin(a) /\ VFin(b)
    /\ \A i \in 1..3 : (a[i] = 0 /\ b[i] < 0) \/ (b[i] = 0 /\ a[i] < 0)

Cross(a, b) ==
    << FSub(FMul(a[2], b[3]), FMul(a[3], b[2])),
       FSub(FMul(a[3], b[1]), FMul(a[1], b[3])),
       FSub(FMul(a[1], b[2]), FMul(a[2], b[1])) >>

Magnitude2(v) == Dot(v, v)

Magnitude(v) == IF VFin(v) THEN RoundSqrt(RawMag2(v), 1) ELSE FSqrt(Magnitude2(v))

\* v * (len / |v|)
NormalizeTo(v, len) ==
    IF VFin(v) /\ IsFin(len) /\ RawMag2(v) > 0
    THEN LET c(i) == Sgn(v[i]) * Sgn(len)
                          * RoundSqrt(v[i] * v[i] * len * len, RawMag2(v))
         IN  <<c(1), c(2), c(3)>>
    ELSE VScale(v, FDiv(len, Magnitude(v)))

Normalize(v) == NormalizeTo(v, Scale)

\* other * (v . other / |other|^2)
ProjectOn(v, other) == VScale(other, FDiv(Dot(v, other), Magnitude2(other)))

(***************************************************************************)
(* Ray (main.rs)                                                           *)
(***************************************************************************)
Ray_new(origin, direction) == [origin |-> origin, direction |-> Normalize(direction)]

Ray_at(ray, t) == VAdd(ray.origin, VScale(ray.direction, t))

(***************************************************************************)
(* The rows' random number generator.  A SmallRng is a deterministic       *)
(* generator: its state is a position in a fixed cyclic stream of raw      *)
(* draws 0..RawMax, and the seed is the starting position.                 *)
(***************************************************************************)
RawMax == 4
Stream == <<1, 3, 2, 3, 1, 4, 3, 0>>

RngNext(rng) == (rng % Len(Stream)) + 1
RngRaw(rng) == Stream[rng]

\* Uniform::new_inclusive(-1.0, 1.0)
SampleInclusive(rng) == RoundDiv(2 * Scale * RngRaw(rng), RawMax) - Scale
\* Uniform::new(0.0, 1.0)
SampleUnit(rng) == (Scale * RngRaw(rng)) \div (RawMax + 1)

\* the rejection loop of rand_diffuse: draws x, y, z until |v|^2 <= 1
RECURSIVE SampleInSphere(_)
SampleInSphere(rng) ==
    LET r2 == RngNext(rng)
        r3 == RngNext(r2)
        v  == <<SampleInclusive(rng), SampleInclusive(r2), SampleInclusive(r3)>>
    IN  IF FLe(Magnitude2(v), Scale)
        THEN [v |-> Normalize(v), rng |-> RngNext(r3)]
        ELSE SampleInSphere(RngNext(r3))

rand_diffuse(ray, rng) ==
    LET s == SampleInSphere(rng)
    IN  [ray |-> [origin |-> ray.origin, direction |-> VAdd(ray.direction, s.v)],
         rng |-> s.rng]

SunDir == VNeg(<<Scale, 5 * Scale, Scale \div 2>>)

NoRay == [origin |-> <<0, 0, 0>>, direction |-> <<0, 0, 0>>]

\* Option<Ray>: [some, ray]
sunward_ray(ray) ==
    IF FLt(Dot(SunDir, ray.direction), 0)
    THEN [some |-> FALSE, ray |-> NoRay]
    ELSE [some |-> TRUE, ray |-> [origin |-> ray.origin, direction |-> SunDir]]

\* rng.gen_bool(prob) consumes one draw; the argument of unwrap_or is
\* evaluated eagerly, so rand_diffuse draws in both branches
rand_ray(ray, prob, rng) ==
    LET take == SampleUnit(rng) < prob
        d    == rand_diffuse(ray, RngNext(rng))
        s    == sunward_ray(ray)
    IN  IF take /\ s.some THEN [ray |-> s.ray, rng |-> d.rng] ELSE d

(***************************************************************************)
(* Hittable objects (sphere.rs, half_plane.rs).  Option<(f64, Ray)> is the *)
(* record [some, t, norm].                                                 *)
(***************************************************************************)
Sphere(center, radius) ==
    [kind |-> "sphere", center |-> center, radius |-> radius,
     normal |-> <<0, 0, 0>>, offset |-> 0]

HalfPlane(normal, offset) ==
    [kind |-> "half_plane", center |-> <<0, 0, 0>>, radius |-> 0,
     normal |-> normal, offset |-> offset]

None == [some |-> FALSE, t |-> 0, norm |-> NoRay]
Some(t, norm) == [some |-> TRUE, t |-> t, norm |-> norm]

Sphere_hit(self, ray) ==
    LET pc  == VSub(self.center, ray.origin)
        pc2 == Dot(pc, ray.direction)
        descriminant ==
            FAdd(FSub(FMul(self.radius, self.radius), Magnitude2(pc)), FMul(pc2, pc2))
        t   == FSub(pc2, descriminant)
        intersection == Ray_at(ray, t)
    IN  IF FLt(descriminant, 0) THEN None
        ELSE IF FLt(t, 0) THEN None
        ELSE Some(t, Ray_new(intersection, VSub(intersection, self.center)))

HalfPlane_hit(self, ray) ==
    LET proj == ProjectOn(ray.origin, self.normal)
        t    == FDivZ(FSub(self.offset, Magnitude(proj)),
                      Dot(ray.direction, self.normal),
                      DotNegZero(ray.direction, self.normal))
        intersect == Ray_at(ray, t)
    IN  IF FLt(t, 0) THEN None
        ELSE Some(t, Ray_new(intersect, self.normal))

\* dynamic dispatch of Hittable::hit
Hit(item, ray) ==
    IF item.kind = "sphere" THEN Sphere_hit(item, ray) ELSE HalfPlane_hit(item, ray)

(***************************************************************************)
(* trace_path (main.rs)                                                    *)
(***************************************************************************)
\* the match of the scan loop: hit is the hit kept so far, h the item's
KeepHit(hit, h) ==
    IF ~h.some THEN hit
    ELSE IF hit.some
         THEN (IF FLt(hit.t, h.t) THEN hit ELSE h)
         ELSE h

\* the loop over world.stuff, from item i on
RECURSIVE ScanWorld(_, _, _, _)
ScanWorld(stuff, ray, i, hit) ==
    IF i > Len(stuff) THEN hit
    ELSE ScanWorld(stuff, ray, i + 1, KeepHit(hit, Hit(stuff[i], ray)))

NearestHit(stuff, ray) == ScanWorld(stuff, ray, 1, None)

Black == <<0, 0, 0>>

Albedo == (4 * Scale) \div 10

\* an albedo of 0.5
AttenuateHalf(next) ==
    <<FMul(next[1], Scale \div 2), FMul(next[2], Scale \div 2), FMul(next[3], Scale \div 2)>>

Attenuate(next) == <<FMul(next[1], Albedo), FMul(next[2], Albedo), FMul(next[3], Albedo)>>

SkyColor(ray) ==
    LET unit == Normalize(ray.direction)
        t    == FMul(Scale \div 2, FAdd(unit[2], Scale))
        ti   == FSub(Scale, t)
    IN  << FAdd(ti, FMul(t, Scale \div 2)),
           FAdd(ti, FMul(t, (7 * Scale) \div 10)),
           Scale >>

\* The result carries, beside the colour and the generator's state after the
\* call, a log of the call tree: the ray and the depth of every call (the
\* outermost first) and the number of item.hit calls made.  The let-bindings
\* of the code (hit, new_ray, next) are the last parameter of the operator
\* that models the code after the binding.
RECURSIVE trace_path(_, _, _, _)

\* return Rgb([next.0[0] * 0.4, next.0[1] * 0.4, next.0[2] * 0.4])
TraceAttenuated(ray, stuff, depth, next) ==
    [color |-> Attenuate(next.color), rng |-> next.rng,
     rays |-> <<ray>> \o next.rays,
     depths |-> <<depth>> \o next.depths,
     queries |-> Len(stuff) + next.queries]

\* let next = trace_path(new_ray, world, depth - 1, rng)
TraceBounce(ray, stuff, depth, b) ==
    TraceAttenuated(ray, stuff, depth, trace_path(b.ray, stuff, depth - 1, b.rng))

\* the code after the scan: bounce off the hit, or the sky
TraceAfterScan(ray, stuff, depth, rng, hit) ==
    IF hit.some
    THEN TraceBounce(ray, stuff, depth, rand_diffuse(hit.norm, rng))
    ELSE [color |-> SkyColor(ray), rng |-> rng, rays |-> <<ray>>,
          depths |-> <<depth>>, queries |-> Len(stuff)]

\* the depth test placed after the scan of the world
trace_path_scan_first(ray, stuff, depth, rng) ==
    IF depth = 0
    THEN [color |-> Black, rng |-> rng, rays |-> <<ray>>, depths |-> <<depth>>,
          queries |-> Len(stuff)]
    ELSE TraceAfterScan(ray, stuff, depth, rng, NearestHit(stuff, ray))

trace_path(ray, stuff, depth, rng) ==
    IF depth = 0
    THEN [color |-> Black, rng |-> rng, rays |-> <<ray>>, depths |-> <<depth>>,
          queries |-> 0]
    ELSE TraceAfterScan(ray, stuff, depth, rng, NearestHit(stuff, ray))

(***************************************************************************)
(* Camera and CameraRayGen (camera.rs)                                     *)
(***************************************************************************)
IMG_WIDTH == 2
IMG_HEIGHT == 2
IMG_SAMPLES == 1
TraceDepth == 2

\* tan(field_of_view * 0.5) for field_of_view = 2.0, focal_length 0.87 and
\* aperture 0.03, each rounded to the grid
TanHalfFov == 31
FocalLength == 17
Aperture == 1

MainCamera ==
    [ray |-> [origin |-> <<0, 0, 0>>, direction |-> <<0, 0, -Scale>>],
     image_width |-> IMG_WIDTH, image_height |-> IMG_HEIGHT,
     tan_half_fov |-> TanHalfFov, focal_length |-> FocalLength,
     aperture |-> Aperture]

aspect_ratio(camera) == FDiv(camera.image_width * Scale, camera.image_height * Scale)

viewport_width(camera) ==
    FMul(FMul(camera.tan_half_fov, 2 * Scale), camera.focal_length)

viewport_height(camera) == FDiv(viewport_width(camera), aspect_ratio(camera))

\* the derived fields of a CameraRayGen; its rng is the row's generator
CameraRayGen_new(camera) ==
    LET center_direction == NormalizeTo(camera.ray.direction, camera.focal_length)
        screen_center == VAdd(camera.ray.origin, center_direction)
        x_direction ==
            NormalizeTo(Cross(center_direction, <<0, Scale, 0>>), viewport_width(camera))
        y_direction ==
            NormalizeTo(Cross(center_direction, x_direction), viewport_height(camera))
    IN  [camera |-> camera,
         x_direction |-> x_direction,
         y_direction |-> y_direction,
         x_aperture |-> NormalizeTo(x_direction, FMul(camera.aperture, Scale \div 2)),
         y_aperture |-> NormalizeTo(y_direction, FMul(camera.aperture, Scale \div 2)),
         upper_left |-> VSub(VSub(screen_center, VScale(x_direction, Scale \div 2)),
                             VScale(y_direction, Scale \div 2))]

\* four draws, in the order the expression evaluates them
gen_ray(gen, rng, x, y) ==
    LET r2 == RngNext(rng)
        r3 == RngNext(r2)
        r4 == RngNext(r3)
        point ==
            VAdd(VAdd(gen.upper_left,
                      VScale(gen.x_direction,
                             FDiv(FAdd(x * Scale, SampleUnit(rng)),
                                  gen.camera.image_width * Scale))),
                 VScale(gen.y_direction,
                        FDiv(FAdd(y * Scale, SampleUnit(r2)),
                             gen.camera.image_height * Scale)))
        base ==
            VAdd(VAdd(gen.camera.ray.origin, VScale(gen.x_aperture, SampleUnit(r3))),
                 VScale(gen.y_aperture, SampleUnit(r4)))
    IN  [ray |-> Ray_new(base, VSub(point, base)), rng |-> RngNext(r4)]

(***************************************************************************)
(* main (main.rs)                                                          *)
(***************************************************************************)
MainWorld ==
    << Sphere(<<0, 0, -Scale>>, Scale \div 2),
       Sphere(<<(3 * Scale) \div 2, 0, -3 * Scale>>, Scale \div 2),
       HalfPlane(<<0, Scale, 0>>, -(Scale \div 2)) >>

\* the seeds from_entropy may give: starting positions in Stream
Seeds == {1, 5}
Rows == 0..(IMG_HEIGHT - 1)
Cols == 0..(IMG_WIDTH - 1)

MainGen == CameraRayGen_new(MainCamera)

\* the loop over the samples of one pixel: n samples left, acc the sums of
\* the channels; the let-bindings ray and color are parameters as in trace_path
RECURSIVE SamplePixel(_, _, _, _, _)

\* r += color.0[0]; g += color.0[1]; b += color.0[2]
SampleAdd(color, x, y, n, acc) ==
    SamplePixel(color.rng, x, y, n - 1,
                <<FAdd(acc[1], color.color[1]),
                  FAdd(acc[2], color.color[2]),
                  FAdd(acc[3], color.color[3])>>)

\* let color = trace_path(ray, &world, 20, &mut camera_ray_gen.rng)
SampleTrace(g, x, y, n, acc) ==
    SampleAdd(trace_path(g.ray, MainWorld, TraceDepth, g.rng), x, y, n, acc)

SamplePixel(rng, x, y, n, acc) ==
    IF n = 0 THEN [acc |-> acc, rng |-> rng]
    ELSE SampleTrace(gen_ray(MainGen, rng, x, y), x, y, n, acc)

\* (v * 256.0).clamp(0.0, 256.0 - EPSILON) as u8; the cast of NaN is 0
ClampToU8(w) ==
    IF IsNaN(w) THEN 0
    ELSE IF w <= 0 THEN 0
    ELSE IF w >= 256 * Scale THEN 255
    ELSE w \div Scale

\* (v * scale).sqrt(), then the cast
ToU8(v) == ClampToU8(FMul(FSqrt(FMul(v, FDiv(Scale, IMG_SAMPLES * Scale))), 256 * Scale))

Quantize(s) ==
    [pixel |-> <<ToU8(s.acc[1]), ToU8(s.acc[2]), ToU8(s.acc[3])>>, rng |-> s.rng]

\* one pass of the loop over x: the pixel and the generator's state after it
RenderPixel(rng, x, y) == Quantize(SamplePixel(rng, x, y, IMG_SAMPLES, <<0, 0, 0>>))

\* one generator shared by all the rows
RngShared(y) == 0

\* camera_ray_gen is a local of the row's closure: row y draws from its own rng
RngOf(y) == y

\* the rows in the order their tasks returned
CollectByCompletion(results, order) == [i \in 1..IMG_HEIGHT |-> results[order[i]]]

\* collect() of an indexed parallel iterator: element i is row i's result
CollectRows(results, order) == [i \in 1..IMG_HEIGHT |-> results[i - 1]]

BlankImage == [y \in Rows |-> [x \in Cols |-> <<0, 0, 0>>]]
NoWrites == [y \in Rows |-> [x \in Cols |-> 0]]

RenderStart ==
    /\ mainpc = "par"
    /\ rowpc = [y \in Rows |-> "idle"]
    /\ seed = [y \in Rows |-> 0]
    /\ gen_rng = [y \in Rows |-> 0]
    /\ rowpix = [y \in Rows |-> <<>>]
    /\ finished = <<>>
    /\ pixels = <<>>
    /\ image = BlankImage
    /\ writes = NoWrites
    /\ ay = 0 /\ ax = 0

PureIdle ==
    /\ p_op = "none"
    /\ p_ray = NoRay
    /\ p_world = <<>>
    /\ p_depth = 0
    /\ p_rng = 1
    /\ p_item = 0
    /\ p_hit = None
    /\ p_rayout = [some |-> FALSE, ray |-> NoRay]
    /\ p_trace = [color |-> Black, rng |-> 1, rays |-> <<>>, depths |-> <<>>,
                  queries |-> 0]

Init ==
    /\ RenderStart
    /\ run = 1
    /\ prev_seed = [y \in Rows |-> 0]
    /\ prev_image = BlankImage
    /\ PureIdle

\* a worker takes row y: CameraRayGen::new, SmallRng::from_entropy
StartRow(y) ==
    /\ mainpc = "par"
    /\ rowpc[y] = "idle"
    /\ \E s \in Seeds :
          /\ seed' = [seed EXCEPT ![y] = s]
          /\ gen_rng' = [gen_rng EXCEPT ![RngOf(y)] = s]
    /\ rowpc' = [rowpc EXCEPT ![y] = "run"]
    /\ UNCHANGED <<mainpc, rowpix, finished, pixels, image, writes, ay, ax, run,
                   prev_seed, prev_image, pureVars>>

\* pixels.push(Rgb([r, g, b])), and the generator keeps its state
PushPixel(y, r) ==
    /\ rowpix' = [rowpix EXCEPT ![y] = Append(@, r.pixel)]
    /\ gen_rng' = [gen_rng EXCEPT ![RngOf(y)] = r.rng]

\* one pass of the loop over x in row y
RowPixel(y) ==
    /\ mainpc = "par"
    /\ rowpc[y] = "run"
    /\ Len(rowpix[y]) < IMG_WIDTH
    /\ PushPixel(y, RenderPixel(gen_rng[RngOf(y)], Len(rowpix[y]), y))
    /\ UNCHANGED <<mainpc, rowpc, seed, finished, pixels, image, writes, ay, ax, run,
                   prev_seed, prev_image, pureVars>>

\* the closure of row y returns its pixels
RowDone(y) ==
    /\ mainpc = "par"
    /\ rowpc[y] = "run"
    /\ Len(rowpix[y]) = IMG_WIDTH
    /\ rowpc' = [rowpc EXCEPT ![y] = "done"]
    /\ finished' = Append(finished, y)
    /\ UNCHANGED <<mainpc, seed, gen_rng, rowpix, pixels, image, writes, ay, ax, run,
                   prev_seed, prev_image, pureVars>>

\* collect() returns once every row's task has returned
Collect ==
    /\ mainpc = "par"
    /\ \A y \in Rows : rowpc[y] = "done"
    /\ pixels' = CollectRows(rowpix, finished)
    /\ mainpc' = "assemble"
    /\ UNCHANGED <<rowpc, seed, gen_rng, rowpix, finished, image, writes, ay, ax, run,
                   prev_seed, prev_image, pureVars>>

\* one put_pixel of the assembly loops
PutPixel ==
    /\ mainpc = "assemble"
    /\ ay < Len(pixels)
    /\ image' = [image EXCEPT ![ay][ax] = pixels[ay + 1][ax + 1]]
    /\ writes' = [writes EXCEPT ![ay][ax] = @ + 1]
    /\ IF ax + 1 < Len(pixels[ay + 1])
       THEN ax' = ax + 1 /\ ay' = ay
       ELSE ax' = 0 /\ ay' = ay + 1
    /\ UNCHANGED <<mainpc, rowpc, seed, gen_rng, rowpix, finished, pixels, run,
                   prev_seed, prev_image, pureVars>>

\* image.save
Save ==
    /\ mainpc = "assemble"
    /\ ay = Len(pixels)
    /\ mainpc' = "saved"
    /\ UNCHANGED <<rowpc, seed, gen_rng, rowpix, finished, pixels, image, writes,
                   ay, ax, run, prev_seed, prev_image, pureVars>>

\* the program is run again on the same world and camera
Rerun ==
    /\ mainpc = "saved"
    /\ run = 1
    /\ run' = 2
    /\ prev_seed' = seed
    /\ prev_image' = image
    /\ mainpc' = "par"
    /\ rowpc' = [y \in Rows |-> "idle"]
    /\ seed' = [y \in Rows |-> 0]
    /\ gen_rng' = [y \in Rows |-> 0]
    /\ rowpix' = [y \in Rows |-> <<>>]
    /\ finished' = <<>>
    /\ pixels' = <<>>
    /\ image' = BlankImage
    /\ writes' = NoWrites
    /\ ay' = 0 /\ ax' = 0
    /\ UNCHANGED pureVars

Next ==
    \/ \E y \in Rows : StartRow(y)
    \/ \E y \in Rows : RowPixel(y)
    \/ \E y \in Rows : RowDone(y)
    \/ Collect
    \/ PutPixel
    \/ Save
    \/ Rerun

Spec == Init /\ [][Next]_vars

(***************************************************************************)
(* One call of a function of the tracer on arguments drawn from small sets *)
(***************************************************************************)
PureOrigins == { <<0, 0, 0>>, <<0, -(Scale \div 4), 0>>, <<0, Scale, 0>>, <<0, 0, Scale>> }

PureDirections ==
    { <<0, 0, -Scale>>, <<0, -Scale, 0>>, <<0, Scale, 0>>, <<Scale, 0, 0>>,
      <<0, -3, -4>>, <<-2, -1, 0>> }

PureRays == { Ray_new(o, d) : o \in PureOrigins, d \in PureDirections }

PureObjects ==
    { Sphere(<<0, 0, -Scale>>, Scale \div 2),
      Sphere(<<0, 0, -Scale>>, Scale),
      HalfPlane(<<0, Scale, 0>>, -(Scale \div 2)),
      HalfPlane(<<0, Scale, 0>>, Scale),
      HalfPlane(<<0, 0, -Scale>>, 0),
      HalfPlane(<<0, 0, -Scale>>, (3 * Scale) \div 4) }

PureWorlds ==
    {<<>>} \cup { <<a>> : a \in PureObjects }
           \cup { w \in { <<a, b>> : a \in PureObjects, b \in PureObjects } :
                    w[1] # w[2] }

PureProbs == { 0, Scale \div 2, Scale }

PureInit ==
    /\ RenderStart
    /\ run = 1
    /\ prev_seed = [y \in Rows |-> 0]
    /\ prev_image = BlankImage
    /\ p_op = "none"
    /\ p_ray \in PureRays
    /\ p_world \in PureWorlds
    /\ p_depth \in 0..TraceDepth
    /\ p_rng \in Seeds
    /\ p_item = 0
    /\ p_hit = None
    /\ p_rayout = [some |-> FALSE, ray |-> NoRay]
    /\ p_trace = [color |-> Black, rng |-> 1, rays |-> <<>>, depths |-> <<>>,
                  queries |-> 0]

\* item.hit(&ray) on one object of the world
ApplyHit ==
    /\ p_op = "none"
    /\ \E i \in 1..Len(p_world) :
          /\ p_item' = i
          /\ p_hit' = Hit(p_world[i], p_ray)
    /\ p_op' = "hit"
    /\ UNCHANGED <<renderVars, p_ray, p_world, p_depth, p_rng, p_rayout, p_trace>>

\* the scan loop of trace_path
ApplyScan ==
    /\ p_op = "none"
    /\ p_hit' = NearestHit(p_world, p_ray)
    /\ p_op' = "scan"
    /\ UNCHANGED <<renderVars, p_ray, p_world, p_depth, p_rng, p_item, p_rayout, p_trace>>

ApplyTrace ==
    /\ p_op = "none"
    /\ p_trace' = trace_path(p_ray, p_world, p_depth, p_rng)
    /\ p_op' = "trace"
    /\ UNCHANGED <<renderVars, p_ray, p_world, p_depth, p_rng, p_item, p_hit, p_rayout>>

ApplyRandDiffuse ==
    /\ p_op = "none"
    /\ p_rayout' = [some |-> TRUE, ray |-> rand_diffuse(p_ray, p_rng).ray]
    /\ p_op' = "rand_diffuse"
    /\ UNCHANGED <<renderVars, p_ray, p_world, p_depth, p_rng, p_item, p_hit, p_trace>>

ApplySunward ==
    /\ p_op = "none"
    /\ p_rayout' = sunward_ray(p_ray)
    /\ p_op' = "sunward_ray"
    /\ UNCHANGED <<renderVars, p_ray, p_world, p_depth, p_rng, p_item, p_hit, p_trace>>

ApplyRandRay ==
    /\ p_op = "none"
    /\ \E prob \in PureProbs :
          p_rayout' = [some |-> TRUE, ray |-> rand_ray(p_ray, prob, p_rng).ray]
    /\ p_op' = "rand_ray"
    /\ UNCHANGED <<renderVars, p_ray, p_world, p_depth, p_rng, p_item, p_hit, p_trace>>

ApplyGenRay ==
    /\ p_op = "none"
    /\ \E x \in Cols, y \in Rows :
          p_rayout' = [some |-> TRUE, ray |-> gen_ray(MainGen, p_rng, x, y).ray]
    /\ p_op' = "gen_ray"
    /\ UNCHANGED <<renderVars, p_ray, p_world, p_depth, p_rng, p_item, p_hit, p_trace>>

PureNext ==
    \/ ApplyHit
    \/ ApplyScan
    \/ ApplyTrace
    \/ ApplyRandDiffuse
    \/ ApplySunward
    \/ ApplyRandRay
    \/ ApplyGenRay

SpecPure == PureInit /\ [][PureNext]_vars

(***************************************************************************)
(* The claims                                                              *)
(***************************************************************************)
\* |v| = 1 within one grid step
IsUnit(v) ==
    /\ VFin(v)
    /\ (Scale - 1) * (Scale - 1) <= RawMag2(v)
    /\ RawMag2(v) <= (Scale + 1) * (Scale + 1)

Near(a, b) == IsFin(a) /\ IsFin(b) /\ Abs(a - b) <= 1

\* the sum of the three products of a . b, not rounded
RawDot(a, b) == a[1] * b[1] + a[2] * b[2] + a[3] * b[3]

\* C1: every Ray that exists has a direction of unit length, whichever site
\* built it: the argument rays (Ray::new), the results of rand_diffuse,
\* sunward_ray, rand_ray and gen_ray, the normal rays of hit, and the rays
\* trace_path passes to its recursive calls.
C1_EveryRayUnit ==
    /\ IsUnit(p_ray.direction)
    /\ p_rayout.some => IsUnit(p_rayout.ray.direction)
    /\ (p_hit.some /\ VFin(p_hit.norm.origin)) => IsUnit(p_hit.norm.direction)
    /\ \A i \in 1..Len(p_trace.rays) :
          VFin(p_trace.rays[i].origin) => IsUnit(p_trace.rays[i].direction)

\* the ray points exactly at the centre c from outside the sphere, and the
\* distance |c - o| is a grid value
AimedAtCentre(sphere, ray) ==
    LET pc == VSub(sphere.center, ray.origin)
        d  == Magnitude(pc)
    IN  /\ d * d = RawMag2(pc)
        /\ d > sphere.radius
        /\ ray.direction = Normalize(pc)
        /\ RawMag2(ray.direction) = Scale * Scale

\* C2: a ray aimed at the centre of a sphere from outside it hits it at
\* t = |c - o| - r, for every radius, and the point of the normal ray lies on
\* the surface of the sphere.
C2_HitAtDistanceMinusRadius ==
    (p_op = "hit" /\ p_world[p_item].kind = "sphere"
                  /\ AimedAtCentre(p_world[p_item], p_ray))
    => /\ p_hit.some
       /\ p_hit.t = Magnitude(VSub(p_world[p_item].center, p_ray.origin))
                       - p_world[p_item].radius
       /\ Magnitude(VSub(p_hit.norm.origin, p_world[p_item].center))
             = p_world[p_item].radius

\* C3: the hit trace_path keeps as the nearest hit has t > 0 strictly (stated
\* for the hits with a finite t: the non-finite ones are C4's).
C3_NearestHitStrictlyAhead ==
    (p_op = "scan" /\ p_hit.some /\ IsFin(p_hit.t)) => p_hit.t > 0

\* C4: for a ray parallel to a half-plane, HalfPlane::hit returns None.
C4_ParallelRayIsRejected ==
    (p_op = "hit" /\ p_world[p_item].kind = "half_plane"
                  /\ RawDot(p_ray.direction, p_world[p_item].normal) = 0)
    => ~p_hit.some

\* C5: trace_path with depth 0 returns (0,0,0), queries no object of the
\* world and consumes no draw of the generator.
C5_DepthZeroIsBlack ==
    (p_op = "trace" /\ p_depth = 0)
    => /\ p_trace.color = <<0, 0, 0>>
       /\ p_trace.queries = 0
       /\ p_trace.rng = p_rng
       /\ p_trace.depths = <<0>>

C5_Witness ==
    /\ p_op = "trace" /\ p_depth = 0
    /\ Len(p_world) = 2
    /\ NearestHit(p_world, p_ray).some
    /\ p_trace.color = <<0, 0, 0>>

\* C8: for a non-parallel ray, a hit of HalfPlane::hit has
\* t = (offset - origin . normal) / (direction . normal) and its point lies on
\* the plane: point . normal = offset.
C8_HalfPlaneSignedDistance ==
    (p_op = "hit" /\ p_world[p_item].kind = "half_plane"
                  /\ Dot(p_ray.direction, p_world[p_item].normal) # 0
                  /\ p_hit.some)
    => /\ Near(p_hit.t,
               FDiv(FSub(p_world[p_item].offset,
                         Dot(p_ray.origin, p_world[p_item].normal)),
                    Dot(p_ray.direction, p_world[p_item].normal)))
       /\ Near(Dot(p_hit.norm.origin, p_world[p_item].normal),
               p_world[p_item].offset)

Reverse(w) == [i \in 1..Len(w) |-> w[Len(w) + 1 - i]]

AllHitsAhead(stuff, ray) ==
    \A i \in 1..Len(stuff) :
        Hit(stuff[i], ray).some => IsFin(Hit(stuff[i], ray).t) /\ Hit(stuff[i], ray).t > 0

\* C9: the kept hit is None exactly when no object is hit, otherwise its t is
\* the least t of the objects that are hit, and the kept hit (t and normal
\* ray) is the same for every ordering of world.stuff (stated for the worlds
\* whose hits all have a finite t > 0: the others are C3's and C4's).
C9_NearestHitOrderFree ==
    (p_op = "scan" /\ AllHitsAhead(p_world, p_ray))
    => /\ p_hit.some <=> (\E i \in 1..Len(p_world) : Hit(p_world[i], p_ray).some)
       /\ p_hit.some =>
             /\ \E i \in 1..Len(p_world) :
                   Hit(p_world[i], p_ray).some /\ Hit(p_world[i], p_ray).t = p_hit.t
             /\ \A i \in 1..Len(p_world) :
                   Hit(p_world[i], p_ray).some => FLe(p_hit.t, Hit(p_world[i], p_ray).t)
       /\ NearestHit(Reverse(p_world), p_ray) = p_hit

\* 0.4^k * c, one multiplication per bounce
RECURSIVE TimesAlbedo(_, _)
TimesAlbedo(k, c) ==
    IF k = 0 THEN c
    ELSE TimesAlbedo(k - 1, <<FMul(c[1], Albedo), FMul(c[2], Albedo), FMul(c[3], Albedo)>>)

\* t = 0.5 * (direction.y + 1) of the unit direction
SkyT(ray) == FMul(Scale \div 2, FAdd(Normalize(ray.direction)[2], Scale))

\* (1 - t) * (1, 1, 1) + t * (0.5, 0.7, 1.0)
SkyGradient(t) ==
    << FAdd(FMul(FSub(Scale, t), Scale), FMul(t, Scale \div 2)),
       FAdd(FMul(FSub(Scale, t), Scale), FMul(t, (7 * Scale) \div 10)),
       FAdd(FMul(FSub(Scale, t), Scale), FMul(t, Scale)) >>

C6_SameSeedsSameImage ==
    (run = 2 /\ mainpc = "saved" /\ seed = prev_seed) => image = prev_image

C6_Witness ==
    /\ run = 2 /\ mainpc = "saved" /\ seed = prev_seed
    /\ image = prev_image
    /\ finished = <<1, 0>>
    /\ image[0] # image[1]

\* C7: whatever the order in which the row tasks return, assembly starts
\* only after all of them have returned, every pixel is written at most once
\* while it runs and exactly once when it is over, and the image then holds
\* at (x, y) the pixel the task of row y computed for column x.
C7_AssemblyKeepsRows ==
    /\ mainpc # "par" => \A y \in Rows : rowpc[y] = "done" /\ Len(rowpix[y]) = IMG_WIDTH
    /\ \A y \in Rows : \A x \in Cols :
          /\ writes[y][x] <= 1
          /\ writes[y][x] = 1 => image[y][x] = rowpix[y][x + 1]
          /\ mainpc = "saved" => writes[y][x] = 1

C7_Witness ==
    /\ mainpc = "saved"
    /\ finished[1] # 0
    /\ rowpix[0] # rowpix[1]
    /\ \A y \in Rows : \A x \in Cols : image[y][x] = rowpix[y][x + 1]

====
